---------------------------- MODULE Spec2Model ----------------------------
(***************************************************************************)
(* A state-machine model of the KPC Arduino debugger (src/kdb.cpp,         *)
(* src/kdb.h): the _KDB object (caps, capsize, readbuf, loops), the calls  *)
(* the firmware makes (init, debugger, capture, print, println), the       *)
(* receive loop readOp / readSize / doOp at the granularity of one poll of *)
(* the serial port, and the host on the other end of the serial line.      *)
(*                                                                         *)
(* Bytes are 0..255.  Indet stands for a byte the model does not           *)
(* determine (memory outside the modelled window, storage past the end of  *)
(* readbuf).  Accesses outside the bounds of readbuf and caps are          *)
(* undefined behaviour in the source; the model records each in ub and     *)
(* takes a nondeterministic choice between "nothing modelled is touched"   *)
(* and the effect given by the member layout of class _KDB (kdb.h:50-53:   *)
(* caps, capsize, readbuf, loops, in this order).                          *)
(***************************************************************************)
EXTENDS Integers, Sequences, FiniteSets, TLC

\* ------------------------------------------------------------------ wire
SYNC1 == 160
SYNC2 == 30

KDB_RETURN == 0
KDB_READ_MEM == 1
KDB_WRITE_MEM == 2
KDB_READ_CAP == 3
KDB_WRITE_CAP == 4
KDB_READ_PIN == 5
KDB_WRITE_PIN == 6
KDB_INIT == 7
KDB_DEBUGGER == 8
KDB_CAPTURE == 9
KDB_READ_MEM_RES == 10
KDB_READ_CAP_RES == 11
KDB_READ_PIN_RES == 12
KDB_PRINT == 13

\* sizes fixed by the class declaration and the calls
BufSize == 32
CapSlots == 32
InitBudget == 200
Unbounded == 255
PrintMax == 29
\* sizeof(_KDB_PtrWithSize) where a pointer has two bytes and members are not
\* padded (the 8-bit boards): size at offset 0, ptr at offsets 1 and 2
EntrySize == 3

\* a byte whose value the model does not determine
Indet == 0 - 1

\* ---------------------------------------------------------------- bounds
\* raw bytes the host may send in the "sync" scenario
SyncMax == 5
\* frames the host may send in the "frames" scenario
FrameMax == 2
\* frames the host may send in the "caps" scenario
CapsFrameMax == 1
\* capture calls per session in the "caps" scenario
CapsCallMax == 34
\* capture calls per session in the "frames" scenario
FewCallMax == 2
\* frames the host may send in the "init" scenario
InitFrameMax == 2
\* capture calls per session in the "init" scenario
InitCallMax == 1
\* longest payload of the "rt" scenario's frames
RtLenMax == 33
\* bytes the UART receive buffer holds unread
MaxPending == 1
\* print / println calls counted per run
PrintCallMax == 1
\* during a wait of init, bytes arrive within this many polls of the start or
\* of the end of the budget
EdgePolls == 2
\* frames the host may send in the "ops" scenario
OpsFrameMax == 1
\* capture calls per session in the "ops" scenario
OpsCallMax == 1
\* frames the host may send in the "wr" scenario
WrFrameMax == 2
\* polls counted while readSize waits for a host that has gone silent
StallMax == 201
\* raw bytes the host may send in the "stall" scenario
StallBytesMax == 2

\* ---------------------------------------------------------------- inputs
Scenarios == {"sync", "init", "frames", "caps", "rt", "ops", "wr", "stall"}

\* source lines the firmware calls from (unsigned line)
Lines == {42, 300}
SessLines(s) == IF s = "sync" THEN Lines ELSE {300}
CallLines == {300}

\* raw bytes of the "sync" scenario
SyncAlphabet == {SYNC1, SYNC2, 85, 0}
\* raw bytes of the "stall" scenario: a sync sequence, the start of a header
StallAlphabet == {SYNC1, SYNC2}
\* the raw bytes the host may send
RawBytes(s) ==
  CASE s = "sync"  -> SyncAlphabet
    [] s = "stall" -> StallAlphabet
    [] OTHER       -> {}

\* the modelled window of target memory and the pins
MemBase == 256
MemAddrs == MemBase .. (MemBase + 39)
Pins == {13}

\* the index k for which caps[k].size is the byte of loops, in the layout of
\* EntrySize: capsize, readbuf[0 .. 31] and loops follow caps[31]
LoopsSlot == CapSlots + ((1 + BufSize) \div EntrySize)

\* the firmware variable (address, sizeof) handed to the k-th capture call of
\* a session: a 2-byte variable, a 40-byte array, a 1-byte variable, in turn;
\* the 33rd is an array of LoopsSlot - 1 bytes
CapsVar(k) ==
  CASE k = CapSlots -> [ptr |-> MemBase, size |-> LoopsSlot - 1]
    [] k % 3 = 0 -> [ptr |-> MemBase, size |-> 2]
    [] k % 3 = 1 -> [ptr |-> MemBase, size |-> 40]
    [] OTHER     -> [ptr |-> MemBase + 2, size |-> 1]

\* strings handed to print / println (sequences of non-zero bytes)
Strings == { <<>>, <<104, 105>>, [i \in 1..30 |-> 64 + i] }

VARIABLES
  scn,        \* the scenario: which inputs the firmware and the host draw
  pc,         \* where the (single) thread of control is
  caller,     \* the public method readOp was called from
  line,       \* init's / debugger's argument
  loops,      \* _KDB::loops
  capsize,    \* _KDB::capsize
  caps,       \* _KDB::caps
  readbuf,    \* _KDB::readbuf
  maxloop,    \* readOp's parameter
  isOp,       \* readOp's local
  opType,     \* doOp's local
  opSize,     \* doOp's local
  rsSize,     \* readSize's parameter after size--
  rsPos,      \* readSize's local pos
  mem,        \* target memory (the modelled window)
  pins,       \* digital pin levels
  rx,         \* bytes in the UART receive buffer, not yet read
  hostq,      \* bytes the host has queued and the line has not delivered
  hostLeft,   \* bursts the host may still send
  tx,         \* the bytes of the last frame written to the serial port
  txflip,     \* toggles at every sendOp
  ub,         \* the out-of-bounds accesses that have happened
  ncap,       \* capture calls since the last init (or startup)
  nprint,     \* print calls made
  prev,       \* the last byte readOp's scan consumed
  retSeen,    \* a RETURN frame was dispatched in the current call
  sent,       \* the frame the host sent last
  nread,      \* bytes consumed since the host began that frame
  aligned,    \* that frame's bytes met one readOp call at a frame boundary
  stall,      \* polls readSize has made in vain since the host went silent
  owed        \* frames sent during the current call that were not dispatched

vars == << scn, pc, caller, line, loops, capsize, caps, readbuf, maxloop, isOp,
           opType, opSize, rsSize, rsPos, mem, pins, rx, hostq, hostLeft, tx,
           txflip, ub, ncap, nprint, prev, retSeen, sent, nread, aligned, stall,
           owed >>

devVars == << loops, capsize, caps, readbuf, mem, pins >>
rdVars == << maxloop, isOp, opType, opSize, rsSize, rsPos >>
hostVars == << rx, hostq, hostLeft, sent >>

\* --------------------------------------------------------------- helpers
Byte == 0 .. 255

\* line >> 8 and line, each truncated to uint8_t on assignment to readbuf
Hi(l) == (l \div 256) % 256
Lo(l) == l % 256

\* readbuf[i] as an rvalue; past the end it is storage of something else
BufAt(buf, i) == IF i < BufSize THEN buf[i] ELSE Indet

\* readbuf[i] = b; past the end the store lands outside readbuf
BufStore(buf, i, b) == IF i < BufSize THEN [buf EXCEPT ![i] = b] ELSE buf

\* the values a byte the model does not determine may turn out to have
Resolve(b) == IF b = Indet THEN {0, 1, BufSize + 1} ELSE {b}

\* sendOp with the payload loop reading readbuf[i + 1]
SendOpBytes_PayloadShifted(type, size, buf) ==
  << SYNC1, SYNC2, type, size >> \o [i \in 1 .. size |-> BufAt(buf, i)]

\* sendOp: the bytes written to the serial port
SendOpBytes(type, size, buf) ==
  << SYNC1, SYNC2, type, size >> \o [i \in 1 .. size |-> BufAt(buf, i - 1)]

\* readbuf[0] << 24 | readbuf[1] << 16 | readbuf[2] << 8 | readbuf[3], a 32-bit
\* value; one with the top bit set is written as the negative number with the
\* same two's-complement bits
AddrOf(b0, b1, b2, b3) ==
  ((IF b0 < 128 THEN b0 ELSE b0 - 256) * 16777216) + (b1 * 65536) + (b2 * 256) + b3

\* *(uint8_t *)a
MemAt(m, a) == IF a \in DOMAIN m THEN m[a] ELSE Indet

\* memcpy((void *)a, src, n): src[i] is the i-th source byte
MemWrite(m, a, n, src) ==
  [x \in DOMAIN m |-> IF x >= a /\ x < a + n THEN src[x - a] ELSE m[x]]

\* memcpy(readbuf, src, n), the part that lands inside readbuf
BufWrite(buf, n, src) ==
  [i \in DOMAIN buf |-> IF i < n THEN src[i] ELSE buf[i]]

\* loops after a store of byte b to readbuf[BufSize]: loops is the member
\* declared right after readbuf, so the store either changes nothing the
\* model holds or it is a store to loops
LoopsAfterStore(lp, b) ==
  {lp} \cup { v # 0 : v \in Resolve(b) }

\* digitalRead / digitalWrite
PinRead(ps, p) == IF p \in DOMAIN ps THEN ps[p] ELSE 0
PinWrite(ps, p, v) == IF p \in DOMAIN ps THEN [ps EXCEPT ![p] = IF v = 0 THEN 0 ELSE 1] ELSE ps

\* ------------------------------------------------------------------ host
NoFrame == [op |-> Indet, len |-> 0, payload |-> << >>]
Frame(op, payload) == [op |-> op, len |-> Len(payload), payload |-> payload]

\* a scratch buffer holding a payload in its first positions
BufOf(payload) ==
  [i \in 0 .. (BufSize - 1) |-> IF i < Len(payload) THEN payload[i + 1] ELSE 0]

\* the host speaks the wire format of sendOp
HostEncode(f) ==
  IF f.len <= BufSize
    THEN SendOpBytes(f.op, f.len, BufOf(f.payload))
    ELSE << SYNC1, SYNC2, f.op, f.len >> \o f.payload

\* payload patterns of the "rt" scenario: distinct bytes, and sync bytes
RtPayload(k, n) ==
  [i \in 1 .. n |-> IF k = 1 THEN i ELSE IF i % 2 = 1 THEN SYNC1 ELSE SYNC2]
RtOps == {KDB_PRINT, KDB_READ_CAP_RES, SYNC1}
RtFrames == { Frame(op, RtPayload(k, n)) : op \in RtOps, k \in {1, 2}, n \in 0 .. RtLenMax }

\* a 4-byte big-endian address
AddrBytes(a) == << (a \div 16777216) % 256, (a \div 65536) % 256, (a \div 256) % 256, a % 256 >>

SessFrames ==
  { Frame(KDB_RETURN, << >>),
    Frame(KDB_READ_MEM, AddrBytes(MemBase) \o << 2 >>),
    Frame(KDB_READ_MEM, AddrBytes(MemBase) \o << BufSize + 1 >>),
    Frame(KDB_WRITE_MEM, AddrBytes(MemBase) \o << 2, 7, 9 >>),
    Frame(KDB_READ_PIN, << 13 >>),
    Frame(KDB_WRITE_PIN, << 13, 1 >>),
    Frame(KDB_READ_CAP, << 0 >>),
    Frame(KDB_READ_CAP, << 1 >>),
    Frame(KDB_WRITE_CAP, << 0, 5, 6 >>),
    Frame(KDB_PRINT, << 1, 2 >>),
    Frame(200, << >>) }

CapsFrames ==
  { Frame(KDB_RETURN, << >>),
    Frame(KDB_READ_CAP, << 0 >>),
    Frame(KDB_READ_CAP, << CapSlots - 1 >>),
    Frame(KDB_READ_CAP, << CapSlots >>),
    Frame(KDB_WRITE_CAP, << 0, 5, 6 >>),
    Frame(KDB_WRITE_CAP, << 1, 8 >>) }

\* the "init" scenario: in a session opened by init, a frame that ends it or
\* a read of 33 bytes of memory; in one opened by debugger, a read of slot 0
InitFrames ==
  { Frame(KDB_RETURN, << >>),
    Frame(KDB_READ_MEM, AddrBytes(MemBase) \o << BufSize + 1 >>) }
AfterInitFrames ==
  { Frame(KDB_RETURN, << >>),
    Frame(KDB_READ_CAP, << 0 >>) }

\* the opcodes doOp's switch has a case for
Requests ==
  {KDB_RETURN, KDB_READ_MEM, KDB_WRITE_MEM, KDB_READ_CAP, KDB_WRITE_CAP, KDB_READ_PIN,
   KDB_WRITE_PIN}

\* the "ops" scenario: frames with every other opcode of the enumeration, the
\* first value above it and the largest byte, with no payload, with a payload
\* that would make a request of the frame, and with a full payload
OpsCodes == (KDB_INIT .. (KDB_PRINT + 1)) \cup {255}
OpsPayloads == { << >>, AddrBytes(MemBase) \o << 2, 7, 9 >>, [i \in 1 .. BufSize |-> 0] }
OpsFrames == { Frame(op, pl) : op \in OpsCodes, pl \in OpsPayloads }

\* the "wr" scenario: writes of 27 bytes (the most a frame carries after the
\* 5 bytes of address and size), of 1 byte and of none, and the reads of the
\* same places
WrData(n) == [i \in 1 .. n |-> 100 + i]
WrPlaces ==
  { [addr |-> MemBase + 13, size |-> BufSize - 5],
    [addr |-> MemBase, size |-> 1],
    [addr |-> MemBase + 39, size |-> 0] }
WrFrames ==
  { Frame(KDB_WRITE_MEM, AddrBytes(w.addr) \o << w.size >> \o WrData(w.size)) : w \in WrPlaces }
    \cup { Frame(KDB_READ_MEM, AddrBytes(w.addr) \o << w.size >>) : w \in WrPlaces }

\* what the host may send: frames, while a session is open
HostFrames(s, c) ==
  CASE c = "none"   -> {}
    [] s = "sync"   -> {}
    [] s = "stall"  -> {}
    [] s = "init"   -> IF c = "init" THEN InitFrames ELSE AfterInitFrames
    [] s = "frames" -> SessFrames
    [] s = "caps"   -> CapsFrames
    [] s = "ops"    -> OpsFrames
    [] s = "wr"     -> WrFrames
    [] OTHER        -> RtFrames

HostBudget(s) ==
  CASE s = "sync"   -> SyncMax
    [] s = "frames" -> FrameMax
    [] s = "init"   -> InitFrameMax
    [] s = "caps"   -> CapsFrameMax
    [] s = "ops"    -> OpsFrameMax
    [] s = "wr"     -> WrFrameMax
    [] s = "stall"  -> StallBytesMax
    [] OTHER        -> 1

\* capture and print calls the firmware of a scenario makes
CallMax(s) ==
  CASE s = "caps"   -> CapsCallMax
    [] s = "frames" -> FewCallMax
    [] s = "init"   -> InitCallMax
    [] s = "ops"    -> OpsCallMax
    [] OTHER        -> 0
PrintsMax(s) == IF s = "rt" THEN PrintCallMax ELSE 0
\* the scenarios whose firmware opens sessions with init
UsesInit(s) == s \in {"sync", "init", "stall"}
\* the polls of readSize that are counted: those of the "stall" scenario
StallPolls(s) == IF s = "stall" THEN StallMax ELSE 0

\* memory images at startup: a counting pattern, and all zero
MemImages(s) ==
  CASE s = "frames" -> { [a \in MemAddrs |-> (a - MemBase) + 1], [a \in MemAddrs |-> 0] }
    [] s = "init"   -> { [a \in MemAddrs |-> 0] }
    [] OTHER        -> { [a \in MemAddrs |-> (a - MemBase) + 1] }

\* ------------------------------------------------------------------ Init
\* _KDB::_KDB
Init ==
  /\ scn \in Scenarios
  /\ pc = "idle" /\ caller = "none" /\ line = 0
  /\ loops = FALSE
  /\ capsize = 0
  /\ caps = [i \in 0 .. (CapSlots - 1) |-> [size |-> 0, ptr |-> 0]]
  /\ readbuf = [i \in 0 .. (BufSize - 1) |-> 0]
  /\ maxloop = 0 /\ isOp = 0 /\ opType = 0 /\ opSize = 0 /\ rsSize = 0 /\ rsPos = 0
  /\ mem \in MemImages(scn)
  /\ pins = [p \in Pins |-> 0]
  /\ rx = << >> /\ hostq = << >> /\ hostLeft = HostBudget(scn)
  /\ tx = << >> /\ txflip = FALSE
  /\ ub = {}
  /\ ncap = 0 /\ nprint = 0
  /\ prev = Indet
  /\ retSeen = FALSE
  /\ sent = NoFrame /\ nread = 0 /\ aligned = FALSE
  /\ stall = 0
  /\ owed = 0

\* ------------------------------------------------------- firmware calls
\* what capture leaves in readbuf[0..7]
CaptureBuf(buf, l, v, cs) ==
  [i \in DOMAIN buf |->
     CASE i = 0 -> Hi(l)
       [] i = 1 -> Lo(l)
       [] i \in 2 .. 5 -> AddrBytes(v.ptr)[i - 1]
       [] i = 6 -> v.size
       [] i = 7 -> cs
       [] OTHER -> buf[i]]

\* capture storing to the slot after caps[capsize]
CapsStore_NextSlot(cp, cs, v) ==
  IF cs + 1 < CapSlots THEN [cp EXCEPT ![cs + 1] = [size |-> v.size, ptr |-> v.ptr]] ELSE cp

\* caps[capsize].ptr = x; caps[capsize].size = size
CapsStore(cp, cs, v) ==
  IF cs < CapSlots THEN [cp EXCEPT ![cs] = [size |-> v.size, ptr |-> v.ptr]] ELSE cp

\* capsize after capture's capsize++.  A store to caps[CapSlots] is a store
\* past the table: caps[CapSlots].size is where capsize lives
CapsizeAfter(cs, v) ==
  IF cs = CapSlots
    THEN {(cs + 1) % 256, (v.size + 1) % 256}
    ELSE {(cs + 1) % 256}

\* the offset from capsize of byte j of caps[k], k >= CapSlots, in the layout
\* of EntrySize: offset 0 is capsize, 1 .. BufSize is readbuf, BufSize + 1 is
\* loops
PastTable(k, j) == (EntrySize * (k - CapSlots)) + j

\* readbuf after the stores of lines 47-48 to caps[k]: for k >= CapSlots they
\* either touch nothing of readbuf or, in the layout of EntrySize, put the
\* size and the two pointer bytes (low byte first) where they land
ReadbufAfterCapsStore(buf, k, v) ==
  IF k < CapSlots THEN {buf}
  ELSE { buf,
         [i \in DOMAIN buf |->
            CASE i + 1 = PastTable(k, 0) -> v.size
              [] i + 1 = PastTable(k, 1) -> v.ptr % 256
              [] i + 1 = PastTable(k, 2) -> (v.ptr \div 256) % 256
              [] OTHER -> buf[i]] }

\* loops after the stores of lines 47-48 to caps[k]: caps[LoopsSlot].size is
\* the byte of loops in the layout of EntrySize
LoopsAfterCapsStore(lp, k, v) ==
  IF k = LoopsSlot THEN {lp, v.size # 0} ELSE {lp}

\* _KDB::capture
Capture(l, v) ==
  /\ pc = "idle"
  /\ ncap < CallMax(scn)
  /\ v = CapsVar(ncap)
  /\ \E buf \in ReadbufAfterCapsStore(CaptureBuf(readbuf, l, v, capsize), capsize, v) :
       /\ readbuf' = buf
       /\ caps' = CapsStore(caps, capsize, v)
       /\ tx' = SendOpBytes(KDB_CAPTURE, 8, buf)
  /\ txflip' = ~txflip
  /\ ub' = IF capsize < CapSlots THEN ub ELSE ub \cup {"caps_store"}
  /\ capsize' \in CapsizeAfter(capsize, v)
  /\ loops' \in LoopsAfterCapsStore(loops, capsize, v)
  /\ ncap' = ncap + 1
  /\ UNCHANGED << owed, stall, scn, pc, caller, line, mem, pins, rdVars, hostVars,
                  nprint, prev, retSeen, nread, aligned >>

\* what print (kind 0) / println (kind 1) leaves in readbuf
PrintLen(str) == IF Len(str) % 256 > PrintMax THEN PrintMax ELSE Len(str) % 256
PrintBuf(buf, l, kind, str) ==
  [i \in DOMAIN buf |->
     CASE i = 0 -> Hi(l)
       [] i = 1 -> Lo(l)
       [] i = 2 -> kind
       [] i >= 3 /\ i < 3 + PrintLen(str) -> str[i - 2]
       [] OTHER -> buf[i]]

\* _KDB::print(unsigned, const char *) and _KDB::println(unsigned, const char *)
PrintCall(l, kind, str) ==
  /\ pc = "idle"
  /\ nprint < PrintsMax(scn)
  /\ readbuf' = PrintBuf(readbuf, l, kind, str)
  /\ tx' = SendOpBytes(KDB_PRINT, PrintLen(str) + 3, readbuf')
  /\ txflip' = ~txflip
  /\ nprint' = nprint + 1
  /\ UNCHANGED << owed, stall, scn, pc, caller, line, loops, capsize, caps, mem, pins, rdVars,
                  hostVars, ub, ncap, prev, retSeen, nread, aligned >>

\* what init and debugger put in readbuf before they announce
LineBuf(buf, l) == [buf EXCEPT ![0] = Hi(l), ![1] = Lo(l)]

\* _KDB::init, lines 55-56
InitCall(l) ==
  /\ pc = "idle"
  /\ UsesInit(scn)
  /\ pc' = "init_loop" /\ caller' = "init" /\ line' = l
  /\ loops' = TRUE
  /\ capsize' = 0
  /\ ncap' = 0
  /\ retSeen' = FALSE
  /\ owed' = 0
  /\ UNCHANGED << stall, scn, caps, readbuf, mem, pins, rdVars, hostVars, tx, txflip, ub,
                  nprint, prev, nread, aligned >>

\* _KDB::init, lines 57-62: the loop test, the announcement, the call of readOp(200)
InitAnnounce ==
  /\ pc = "init_loop" /\ loops
  /\ readbuf' = LineBuf(readbuf, line)
  /\ tx' = SendOpBytes(KDB_INIT, 2, readbuf')
  /\ txflip' = ~txflip
  /\ maxloop' = InitBudget /\ isOp' = 0
  /\ pc' = "readOp"
  /\ UNCHANGED << owed, stall, scn, caller, line, loops, capsize, caps, mem, pins, opType, opSize,
                  rsSize, rsPos, hostVars, ub, ncap, nprint, prev, retSeen, nread,
                  aligned >>

\* _KDB::init, line 57: the loop test fails and init returns
InitReturn ==
  /\ pc = "init_loop" /\ ~loops
  /\ pc' = "idle" /\ caller' = "none" /\ line' = 0
  /\ UNCHANGED << owed, stall, scn, devVars, rdVars, hostVars, tx, txflip, ub, ncap, nprint,
                  prev, retSeen, nread, aligned >>

\* _KDB::init, line 63: delay(100)
InitDelay ==
  /\ pc = "delay"
  /\ pc' = "init_loop"
  /\ UNCHANGED << owed, stall, scn, caller, line, devVars, rdVars, hostVars, tx, txflip, ub, ncap,
                  nprint, prev, retSeen, nread, aligned >>

\* _KDB::debugger up to the call of readOp()
DebuggerCall(l) ==
  /\ pc = "idle"
  /\ readbuf' = LineBuf(readbuf, l)
  /\ tx' = SendOpBytes(KDB_DEBUGGER, 2, readbuf')
  /\ txflip' = ~txflip
  /\ loops' = TRUE
  /\ maxloop' = Unbounded /\ isOp' = 0
  /\ pc' = "readOp" /\ caller' = "debugger" /\ line' = l
  /\ retSeen' = FALSE
  /\ owed' = 0
  /\ UNCHANGED << stall, scn, capsize, caps, mem, pins, opType, opSize, rsSize, rsPos,
                  hostVars, ub, ncap, nprint, prev, nread, aligned >>

\* ---------------------------------------------------------------- readOp
\* maxloop after line 220 (uint8_t)
Dec(m) == (m - 1) % 256

\* the budget test of lines 218-225 sends readOp back to its caller
BudgetOut(m) == m # Unbounded /\ Dec(m) = 0

\* maxloop after the budget test when readOp goes on
BudgetNext(m) == IF m = Unbounded THEN m ELSE Dec(m)

\* control after readOp returns: init goes on to delay(100), debugger returns
Return ==
  /\ pc' = IF caller = "init" THEN "delay" ELSE "idle"
  /\ caller' = IF caller = "init" THEN caller ELSE "none"
  /\ line' = IF caller = "init" THEN line ELSE 0
  /\ maxloop' = 0 /\ isOp' = 0 /\ opType' = 0 /\ opSize' = 0 /\ rsSize' = 0 /\ rsPos' = 0
  /\ aligned' = (aligned /\ nread = 0)

\* readOp, line 216: loops is false
ReadOpExit ==
  /\ pc = "readOp" /\ ~loops
  /\ Return
  /\ UNCHANGED << owed, stall, scn, devVars, hostVars, tx, txflip, ub, ncap, nprint, prev,
                  retSeen, nread >>

\* readOp's budget return with loops = false added before the return
ReadOpTimeout_ClearsLoops ==
  /\ pc = "readOp" /\ loops
  /\ BudgetOut(maxloop)
  /\ Return
  /\ loops' = FALSE
  /\ UNCHANGED << owed, stall, scn, capsize, caps, readbuf, mem, pins, hostVars, tx, txflip, ub,
                  ncap, nprint, prev, retSeen, nread >>

\* readOp, lines 218-224: the budget is used up
ReadOpTimeout ==
  /\ pc = "readOp" /\ loops
  /\ BudgetOut(maxloop)
  /\ Return
  /\ UNCHANGED << owed, stall, scn, devVars, hostVars, tx, txflip, ub, ncap, nprint, prev,
                  retSeen, nread >>

\* readOp, lines 218-227: one poll that finds no byte available
ReadOpIdle ==
  /\ pc = "readOp" /\ loops
  /\ ~BudgetOut(maxloop)
  /\ rx = << >>
  /\ maxloop' = BudgetNext(maxloop)
  /\ UNCHANGED << owed, stall, scn, pc, caller, line, devVars, isOp, opType, opSize, rsSize, rsPos,
                  hostVars, tx, txflip, ub, ncap, nprint, prev, retSeen, nread,
                  aligned >>

\* isOp after readOp has looked at byte res; doOp is called when StartsOp
IsOpAfter(flag, res) == IF res = SYNC1 THEN 1 ELSE flag
StartsOp(flag, res) == res = SYNC2 /\ flag = 1

\* readOp, lines 218-242: one poll that reads a byte
ReadOpByte ==
  /\ pc = "readOp" /\ loops
  /\ ~BudgetOut(maxloop)
  /\ rx # << >>
  /\ LET res == Head(rx) IN
       /\ rx' = Tail(rx)
       /\ prev' = res
       /\ isOp' = IsOpAfter(isOp, res)
       /\ pc' = IF StartsOp(isOp, res) THEN "hdr" ELSE "readOp"
       /\ rsSize' = IF StartsOp(isOp, res) THEN 1 ELSE rsSize
       /\ rsPos' = 0
  /\ maxloop' = BudgetNext(maxloop)
  /\ nread' = IF aligned THEN nread + 1 ELSE nread
  /\ UNCHANGED << owed, stall, scn, caller, line, devVars, opType, opSize, hostq, hostLeft, sent,
                  tx, txflip, ub, ncap, nprint, retSeen, aligned >>

\* -------------------------------------------------------------- readSize
\* readSize returning one byte early
StageDone_OneShort(pos, size) == pos + 1 >= size

\* the stage (header or payload) ends with the byte stored at pos == size
StageDone(pos, size) == pos = size

\* readSize, lines 254-263, one byte; doOp's lines 164-167 between the stages
ReadSizeStep ==
  /\ pc \in {"hdr", "payload"}
  /\ rx # << >>
  /\ LET b == Head(rx)
         buf == BufStore(readbuf, rsPos, b)
     IN
       /\ rx' = Tail(rx)
       /\ readbuf' = buf
       /\ ub' = IF rsPos < BufSize THEN ub ELSE ub \cup {"readSize_store"}
       /\ loops' \in (IF rsPos = BufSize THEN LoopsAfterStore(loops, b) ELSE {loops})
       /\ IF ~StageDone(rsPos, rsSize)
            THEN /\ rsPos' = rsPos + 1
                 /\ UNCHANGED << pc, opType, opSize, rsSize >>
            ELSE IF pc = "hdr"
              THEN /\ opType' = buf[0]
                   /\ opSize' = buf[1]
                   /\ pc' = IF buf[1] = 0 THEN "dispatch" ELSE "payload"
                   /\ rsSize' = IF buf[1] = 0 THEN 0 ELSE buf[1] - 1
                   /\ rsPos' = 0
              ELSE /\ pc' = "dispatch"
                   /\ UNCHANGED << opType, opSize, rsSize, rsPos >>
  /\ nread' = IF aligned THEN nread + 1 ELSE nread
  /\ UNCHANGED << owed, stall, scn, caller, line, capsize, caps, mem, pins, maxloop, isOp, hostq,
                  hostLeft, sent, tx, txflip, ncap, nprint, prev, retSeen, aligned >>

\* the host has sent all it will send and every byte of it has been read
HostSilent == hostLeft = 0 /\ hostq = << >> /\ rx = << >>

\* readSize, lines 254-256: one poll that finds no byte available.  The
\* polls are counted once the host has gone silent, up to StallPolls
ReadSizeIdle ==
  /\ pc \in {"hdr", "payload"}
  /\ HostSilent
  /\ stall < StallPolls(scn)
  /\ stall' = stall + 1
  /\ UNCHANGED << owed, scn, pc, caller, line, devVars, rdVars, hostVars, tx, txflip, ub,
                  ncap, nprint, prev, retSeen, nread, aligned >>

\* ------------------------------------------------------------------ doOp
\* One outcome of the switch of doOp: the members and the target state after
\* it, the frame it wrote (<< >> when none) and the out-of-bounds accesses.
Outcome(lp, buf, m, ps, out, ubs) ==
  [lp |-> lp, buf |-> buf, m |-> m, ps |-> ps, out |-> out, ubs |-> ubs]

\* memcpy(readbuf, (void *)a, n); sendOp(res, n)  (lines 181-182, 201-202)
CopyOutAndSend(res, a, n, lp, buf, m, ps) ==
  LET nbuf == BufWrite(buf, n, [i \in 0 .. (n - 1) |-> MemAt(m, a + i)])
      ubs == IF n > BufSize THEN {"memcpy_store", "sendOp_load"} ELSE {}
      lps == IF n > BufSize THEN LoopsAfterStore(lp, MemAt(m, a + BufSize)) ELSE {lp}
  IN  { Outcome(l, nbuf, m, ps, SendOpBytes(res, n, nbuf), ubs) : l \in lps }

\* memcpy((void *)a, readbuf + off, n)  (lines 187, 207)
CopyIn(a, off, n, lp, buf, m, ps) ==
  LET nm == MemWrite(m, a, n, [i \in 0 .. (n - 1) |-> BufAt(buf, off + i)])
      ubs == IF off + n > BufSize THEN {"memcpy_load"} ELSE {}
  IN  { Outcome(lp, buf, nm, ps, << >>, ubs) }

\* *(caps + pos): past the table it is capsize, readbuf and what follows
CapsAt(cp, cs, pos) ==
  IF pos < CapSlots
    THEN {cp[pos]}
    ELSE { [size |-> sz, ptr |-> p] : sz \in {0, cs}, p \in {0, MemBase} }

\* case _KDB_RETURN without the assignment to loops
DoReturn_KeepsLooping(lp, buf, m, ps) == { Outcome(lp, buf, m, ps, << >>, {}) }

\* case _KDB_RETURN
DoReturn(lp, buf, m, ps) == { Outcome(FALSE, buf, m, ps, << >>, {}) }

\* case _KDB_READ_MEM
DoReadMem(lp, buf, m, ps) ==
  UNION { CopyOutAndSend(KDB_READ_MEM_RES, AddrOf(b0, b1, b2, b3), n, lp, buf, m, ps) :
            b0 \in Resolve(buf[0]), b1 \in Resolve(buf[1]), b2 \in Resolve(buf[2]),
            b3 \in Resolve(buf[3]), n \in Resolve(buf[4]) }

\* case _KDB_WRITE_MEM copying from readbuf + 4, the size byte
DoWriteMem_FromSizeByte(lp, buf, m, ps) ==
  UNION { CopyIn(AddrOf(b0, b1, b2, b3), 4, n, lp, buf, m, ps) :
            b0 \in Resolve(buf[0]), b1 \in Resolve(buf[1]), b2 \in Resolve(buf[2]),
            b3 \in Resolve(buf[3]), n \in Resolve(buf[4]) }

\* case _KDB_WRITE_MEM
DoWriteMem(lp, buf, m, ps) ==
  UNION { CopyIn(AddrOf(b0, b1, b2, b3), 5, n, lp, buf, m, ps) :
            b0 \in Resolve(buf[0]), b1 \in Resolve(buf[1]), b2 \in Resolve(buf[2]),
            b3 \in Resolve(buf[3]), n \in Resolve(buf[4]) }

\* case _KDB_READ_PIN without the call of sendOp
DoReadPin_NoResponse(lp, buf, m, ps) ==
  { Outcome(lp, [buf EXCEPT ![0] = PinRead(ps, pin)], m, ps, << >>, {}) :
      pin \in Resolve(buf[0]) }

\* case _KDB_READ_PIN
DoReadPin(lp, buf, m, ps) ==
  { LET nbuf == [buf EXCEPT ![0] = PinRead(ps, pin)]
    IN  Outcome(lp, nbuf, m, ps, SendOpBytes(KDB_READ_PIN_RES, 1, nbuf), {}) :
      pin \in Resolve(buf[0]) }

\* case _KDB_WRITE_PIN
DoWritePin(lp, buf, m, ps) ==
  { Outcome(lp, buf, m, PinWrite(ps, pin, v), << >>, {}) :
      pin \in Resolve(buf[0]), v \in Resolve(buf[1]) }

\* case _KDB_READ_CAP
DoReadCap(lp, buf, m, ps, cp, cs) ==
  UNION { UNION { LET c == CopyOutAndSend(KDB_READ_CAP_RES, e.ptr, e.size, lp, buf, m, ps)
                  IN  IF pos < CapSlots THEN c
                      ELSE { [o EXCEPT !.ubs = @ \cup {"caps_load"}] : o \in c } :
                    e \in CapsAt(cp, cs, pos) } :
            pos \in Resolve(buf[0]) }

\* case _KDB_WRITE_CAP copying from readbuf instead of readbuf + 1
DoWriteCap_FromIndexByte(lp, buf, m, ps, cp, cs) ==
  UNION { UNION { CopyIn(e.ptr, 0, e.size, lp, buf, m, ps) : e \in CapsAt(cp, cs, pos) } :
            pos \in Resolve(buf[0]) }

\* case _KDB_WRITE_CAP
DoWriteCap(lp, buf, m, ps, cp, cs) ==
  UNION { UNION { LET c == CopyIn(e.ptr, 1, e.size, lp, buf, m, ps)
                  IN  IF pos < CapSlots THEN c
                      ELSE { [o EXCEPT !.ubs = @ \cup {"caps_load"}] : o \in c } :
                    e \in CapsAt(cp, cs, pos) } :
            pos \in Resolve(buf[0]) }

\* the switch of doOp with a default case that falls into case _KDB_RETURN
DoOp_DefaultReturns(type, lp, buf, m, ps, cp, cs) ==
  CASE type = KDB_READ_MEM  -> DoReadMem(lp, buf, m, ps)
    [] type = KDB_WRITE_MEM -> DoWriteMem(lp, buf, m, ps)
    [] type = KDB_READ_PIN  -> DoReadPin(lp, buf, m, ps)
    [] type = KDB_WRITE_PIN -> DoWritePin(lp, buf, m, ps)
    [] type = KDB_READ_CAP  -> DoReadCap(lp, buf, m, ps, cp, cs)
    [] type = KDB_WRITE_CAP -> DoWriteCap(lp, buf, m, ps, cp, cs)
    [] OTHER                -> DoReturn(lp, buf, m, ps)

\* the switch of doOp, lines 173-211
DoOp(type, lp, buf, m, ps, cp, cs) ==
  CASE type = KDB_RETURN    -> DoReturn(lp, buf, m, ps)
    [] type = KDB_READ_MEM  -> DoReadMem(lp, buf, m, ps)
    [] type = KDB_WRITE_MEM -> DoWriteMem(lp, buf, m, ps)
    [] type = KDB_READ_PIN  -> DoReadPin(lp, buf, m, ps)
    [] type = KDB_WRITE_PIN -> DoWritePin(lp, buf, m, ps)
    [] type = KDB_READ_CAP  -> DoReadCap(lp, buf, m, ps, cp, cs)
    [] type = KDB_WRITE_CAP -> DoWriteCap(lp, buf, m, ps, cp, cs)
    [] OTHER                -> { Outcome(lp, buf, m, ps, << >>, {}) }

\* doOp, lines 173-211, then readOp's line 239 (isOp = 0)
Dispatch ==
  /\ pc = "dispatch"
  /\ \E o \in DoOp(opType, loops, readbuf, mem, pins, caps, capsize) :
       /\ loops' = o.lp
       /\ readbuf' = o.buf
       /\ mem' = o.m
       /\ pins' = o.ps
       /\ tx' = IF o.out = << >> THEN tx ELSE o.out
       /\ txflip' = IF o.out = << >> THEN txflip ELSE ~txflip
       /\ ub' = ub \cup o.ubs
  /\ retSeen' = (retSeen \/ opType = KDB_RETURN)
  /\ isOp' = 0
  /\ pc' = "readOp"
  /\ opType' = 0 /\ opSize' = 0 /\ rsSize' = 0 /\ rsPos' = 0
  /\ aligned' = FALSE
  /\ nread' = 0
  /\ owed' = IF owed > 0 THEN owed - 1 ELSE 0
  /\ UNCHANGED << stall, scn, caller, line, capsize, caps, maxloop, hostVars, ncap, nprint,
                  prev >>

\* ------------------------------------------------------------------ host
\* when the line may carry a byte: at any time, except that during a bounded
\* wait it does so near the start or near the end of the budget
ArrivalTime ==
  \/ pc # "readOp"
  \/ maxloop = Unbounded
  \/ maxloop >= InitBudget - EdgePolls
  \/ maxloop <= 1 + EdgePolls

\* the host queues one frame
HostSendFrame(f) ==
  /\ hostq = << >> /\ hostLeft > 0
  /\ ArrivalTime
  /\ f \in HostFrames(scn, caller)
  /\ hostq' = HostEncode(f)
  /\ hostLeft' = hostLeft - 1
  /\ sent' = f
  /\ nread' = 0
  /\ aligned' = (rx = << >> /\ pc \notin {"hdr", "payload", "dispatch"})
  /\ owed' = owed + 1
  /\ UNCHANGED << stall, scn, pc, caller, line, devVars, rdVars, rx, tx, txflip, ub, ncap,
                  nprint, prev, retSeen >>

\* the host queues one raw byte
HostSendRaw(b) ==
  /\ b \in RawBytes(scn) /\ caller # "none"
  /\ hostq = << >> /\ hostLeft > 0
  /\ ArrivalTime
  /\ hostq' = << b >>
  /\ hostLeft' = hostLeft - 1
  /\ sent' = NoFrame
  /\ nread' = 0
  /\ aligned' = FALSE
  /\ UNCHANGED << owed, stall, scn, pc, caller, line, devVars, rdVars, rx, tx, txflip, ub, ncap,
                  nprint, prev, retSeen >>

\* the serial line delivers the next byte into the UART receive buffer
Deliver ==
  /\ hostq # << >>
  /\ Len(rx) < MaxPending
  /\ ArrivalTime
  /\ rx' = Append(rx, Head(hostq))
  /\ hostq' = Tail(hostq)
  /\ UNCHANGED << owed, stall, scn, pc, caller, line, devVars, rdVars, hostLeft, sent, tx, txflip,
                  ub, ncap, nprint, prev, retSeen, nread, aligned >>

\* ------------------------------------------------------------------ Next
Firmware ==
  \/ \E l \in CallLines : Capture(l, CapsVar(ncap))
  \/ \E l \in CallLines, kind \in {0, 1}, str \in Strings : PrintCall(l, kind, str)
  \/ \E l \in SessLines(scn) : InitCall(l)
  \/ \E l \in SessLines(scn) : DebuggerCall(l)

Device ==
  \/ InitAnnounce
  \/ InitReturn
  \/ InitDelay
  \/ ReadOpExit
  \/ ReadOpTimeout
  \/ ReadOpIdle
  \/ ReadOpByte
  \/ ReadSizeStep
  \/ ReadSizeIdle
  \/ Dispatch

Host ==
  \/ \E f \in HostFrames(scn, caller) : HostSendFrame(f)
  \/ \E b \in RawBytes(scn) : HostSendRaw(b)
  \/ Deliver

Next == Firmware \/ Device \/ Host

Spec == Init /\ [][Next]_vars

\* ---------------------------------------------------------------- steps
\* the step in which readOp calls doOp
EntersDoOp == pc = "readOp" /\ pc' = "hdr"
\* the step in which doOp runs its switch
Dispatches == pc = "dispatch" /\ pc' = "readOp"
\* a step that reads a byte from the serial port
ConsumesByte == rx # << >> /\ rx' = Tail(rx)
\* a step that writes a frame
WritesFrame == txflip' # txflip
\* a step that is a call of capture
Captures == ncap' = ncap + 1

\* ---------------------------------------------------------------- claims
\* C1: readOp calls doOp only when the 0x1E it has just read immediately
\* follows a 0xA0 in the inbound stream.
C1_DoOpOnlyAfterAdjacentSync ==
  [][EntersDoOp => (prev = SYNC1 /\ prev' = SYNC2)]_vars

\* C2: readSize, called by doOp for the payload a header declares, never
\* stores a byte at readbuf[32] or beyond.
C2_NoStorePastReadbuf ==
  "readSize_store" \notin ub

\* C3: the bytes of a frame written in sendOp's format with a payload of at
\* most 32 bytes, fed to one call of readOp at a frame boundary, are decoded
\* by doOp to the same opcode, the same length and the same payload in
\* readbuf[0..N-1], after exactly 4 + N bytes.
C3_RoundTrip ==
  (pc = "dispatch" /\ aligned /\ sent.len <= BufSize) =>
     /\ opType = sent.op
     /\ opSize = sent.len
     /\ \A i \in 1 .. sent.len : readbuf[i - 1] = sent.payload[i]
     /\ nread = 4 + sent.len

\* C3's case: a frame with a full 32-byte payload made of sync bytes has been
\* decoded.
C3_Witness ==
  /\ pc = "dispatch" /\ aligned
  /\ sent.len = BufSize /\ sent.payload[2] = SYNC2
  /\ nread = 4 + BufSize

\* C4: the dispatch of RETURN clears loops and writes nothing; from then on,
\* until the call (init or debugger) has returned, no byte is read, no frame
\* is written, no poll is made and loops stays false.
C4_ReturnStopsTheLoop ==
  [][ /\ (Dispatches /\ opType = KDB_RETURN) => (~loops' /\ ~WritesFrame)
      /\ (retSeen /\ caller # "none") =>
            /\ ~ConsumesByte /\ ~WritesFrame /\ ~loops'
            /\ pc' \in {"readOp", "delay", "init_loop", "idle"}
            /\ (pc = "readOp" /\ pc' = "readOp") => UNCHANGED maxloop
    ]_vars

\* C4's case: init has left readOp after a RETURN and a byte that arrived
\* after the RETURN frame is still unread.
C4_Witness ==
  retSeen /\ caller = "init" /\ pc = "delay" /\ rx # << >>

\* C5: init returns only after a RETURN frame has been dispatched.
C5_InitReturnsOnlyAfterReturn ==
  [][(pc = "init_loop" /\ pc' = "idle") => retSeen]_vars

\* C6: debugger returns only after a RETURN frame has been dispatched.
C6_DebuggerReturnsOnlyAfterReturn ==
  [][(caller = "debugger" /\ pc = "readOp" /\ pc' = "idle") => retSeen]_vars

\* C7: up to 32 capture calls after the last init (or startup) the slot count
\* is the number of those calls; the i-th such call (i in 0..31) stores the
\* variable's (address, size) in caps[i] and in no other entry, announces a
\* CAPTURE frame of 8 payload bytes that carries the size and, last, i, and
\* leaves the count at i + 1; init sets the count to 0.
C7_SequentialSlots ==
  [][ /\ (ncap <= CapSlots) => (capsize = ncap)
      /\ (ncap' <= CapSlots) => (capsize' = ncap')
      /\ (Captures /\ ncap < CapSlots) =>
            /\ caps' = [caps EXCEPT ![ncap] = [size |-> CapsVar(ncap).size,
                                               ptr |-> CapsVar(ncap).ptr]]
            /\ WritesFrame
            /\ Len(tx') = 12 /\ tx'[3] = KDB_CAPTURE /\ tx'[4] = 8
            /\ tx'[11] = CapsVar(ncap).size /\ tx'[12] = ncap
            /\ capsize' = ncap + 1
      /\ (pc = "idle" /\ pc' = "init_loop") => (capsize' = 0)
    ]_vars

\* C7's case: the 32nd capture call has been given index 31.
C7_Witness ==
  ncap = CapSlots /\ capsize = CapSlots /\ Len(tx) = 12 /\ tx[12] = CapSlots - 1

\* C8: the slot count never exceeds 32 and capture never stores to caps[32]
\* or beyond.
C8_TableBounded ==
  capsize <= CapSlots /\ "caps_store" \notin ub

\* C9: the dispatch of READ_CAP or WRITE_CAP with a slot index that is not
\* below the current slot count reads no entry past the table, copies
\* nothing to memory or to readbuf and writes no frame.
C9_UnregisteredSlotFails ==
  [][ (Dispatches /\ opType \in {KDB_READ_CAP, KDB_WRITE_CAP} /\ readbuf[0] >= capsize) =>
        (~WritesFrame /\ mem' = mem /\ readbuf' = readbuf /\ "caps_load" \notin ub')
    ]_vars

\* a slot registered in the current session, of at most 31 bytes
Registered(pos) ==
  /\ ncap <= CapSlots
  /\ pos >= 0 /\ pos < capsize
  /\ caps[pos].size < BufSize

\* C10: READ_CAP of a registered slot of s <= 31 bytes writes one
\* READ_CAP_RES frame whose payload is the s bytes at the slot's address, in
\* ascending address order, and leaves memory alone; WRITE_CAP of such a
\* slot, in a frame that carries the index and s data bytes, makes the s
\* bytes at the slot's address equal to those data bytes (the bytes of the
\* host's frame after the index), changes no other byte and writes no
\* frame.  Hence READ_CAP returns the data of the latest WRITE_CAP when no
\* other write to that memory came in between.
C10_CapReadWrite ==
  [][ /\ (Dispatches /\ opType = KDB_READ_CAP /\ Registered(readbuf[0])) =>
            LET e == caps[readbuf[0]] IN
              /\ WritesFrame
              /\ tx' = << SYNC1, SYNC2, KDB_READ_CAP_RES, e.size >>
                         \o [k \in 1 .. e.size |-> mem[e.ptr + k - 1]]
              /\ mem' = mem
      /\ (Dispatches /\ opType = KDB_WRITE_CAP /\ Registered(readbuf[0])
            /\ opSize = caps[readbuf[0]].size + 1) =>
            LET e == caps[readbuf[0]] IN
              /\ ~WritesFrame
              /\ \A a \in DOMAIN mem :
                    mem'[a] = IF a >= e.ptr /\ a < e.ptr + e.size
                                THEN readbuf[1 + (a - e.ptr)] ELSE mem[a]
              /\ aligned => \A k \in 1 .. e.size : mem'[e.ptr + k - 1] = sent.payload[k + 1]
    ]_vars

\* C10's case: READ_CAP(0) has answered with the two bytes that WRITE_CAP(0)
\* wrote to the 2-byte variable of slot 0.
C10_Witness ==
  /\ tx = << SYNC1, SYNC2, KDB_READ_CAP_RES, 2, 5, 6 >>
  /\ mem[MemBase] = 5 /\ mem[MemBase + 1] = 6
  /\ capsize >= 1 /\ caps[0] = [size |-> 2, ptr |-> MemBase]

\* the step in which readOp returns because its budget is used up
BudgetExit ==
  pc = "readOp" /\ loops /\ BudgetOut(maxloop) /\ pc' # "readOp"

\* C11 as claimed: when a bounded wait ends because its budget is used up and
\* no RETURN was dispatched, loops is false.
C11_IdleAfterBudgetExit ==
  [][(BudgetExit /\ ~retSeen) => ~loops']_vars

\* C11 as amended: the budget return leaves loops true, control goes to
\* init's delay and from there back to the loop test with loops still true.
C11_BudgetExitKeepsRunning ==
  [][ /\ (BudgetExit /\ ~retSeen) => (loops' /\ caller = "init" /\ pc' = "delay")
      /\ (pc = "delay" /\ loops /\ pc' # pc) => (loops' /\ pc' = "init_loop")
    ]_vars

\* C11's case: a wait of init has ended on its budget with no RETURN seen.
C11_Witness ==
  pc = "delay" /\ caller = "init" /\ loops /\ ~retSeen /\ maxloop = 0

\* C12: every frame written to the serial port is 0xA0, 0x1E, an opcode and a
\* length N of at most 32, followed by exactly N bytes that are readbuf[0]
\* to readbuf[N - 1].
C12_FramesFitTheBuffer ==
  [][ WritesFrame =>
        /\ Len(tx') >= 4
        /\ tx'[1] = SYNC1 /\ tx'[2] = SYNC2
        /\ tx'[4] >= 0 /\ tx'[4] <= BufSize
        /\ Len(tx') = 4 + tx'[4]
        /\ \A i \in 1 .. tx'[4] : tx'[4 + i] = readbuf'[i - 1]
    ]_vars

\* C13: a frame of at most 32 payload bytes whose opcode has no case in
\* doOp's switch is consumed whole (4 + N bytes) and dropped: while its
\* payload is read and when it is dispatched no frame is written and loops,
\* caps, capsize, memory and the pins do not change, and readOp goes on
\* polling with loops true.
C13_UnknownOpcodeIgnored ==
  [][ /\ (pc = "payload" /\ opType \notin Requests /\ opSize <= BufSize) =>
            (~WritesFrame /\ UNCHANGED << loops, caps, capsize, mem, pins >>)
      /\ (Dispatches /\ opType \notin Requests /\ opSize <= BufSize) =>
            /\ ~WritesFrame
            /\ UNCHANGED << loops, caps, capsize, mem, pins, caller >>
            /\ loops' /\ pc' = "readOp"
            /\ aligned => (nread = 4 + sent.len /\ opType = sent.op)
    ]_vars

\* C13's case: a frame with opcode INIT and a payload that reads as a
\* WRITE_MEM request has been dispatched with a slot registered, and
\* nothing happened.
C13_Witness ==
  /\ scn = "ops" /\ sent.op = KDB_INIT /\ sent.len = 7
  /\ pc = "readOp" /\ readbuf[5] = 7 /\ readbuf[6] = 9 /\ hostq = << >> /\ rx = << >>
  /\ capsize = 1 /\ loops /\ mem[MemBase] = 1 /\ tx[3] = KDB_DEBUGGER

\* the address and the size a READ_MEM / WRITE_MEM payload in readbuf names
ReqAddr == AddrOf(readbuf[0], readbuf[1], readbuf[2], readbuf[3])
ReqSize == readbuf[4]
\* the n bytes at a lie in the modelled memory
InMemory(a, n) == \A k \in 0 .. (n - 1) : (a + k) \in DOMAIN mem

\* C14: WRITE_MEM(A, s, data) in a frame of 5 + s <= 32 payload bytes makes
\* the s bytes at A equal to data, changes no other byte and writes no
\* frame; READ_MEM(A, s), s <= 32, writes one READ_MEM_RES frame whose
\* payload is the s bytes at A and leaves memory alone.  Hence the read after
\* the write returns data when no other write to that memory came between.
C14_MemWriteRead ==
  [][ /\ (Dispatches /\ opType = KDB_WRITE_MEM /\ opSize = 5 + ReqSize
            /\ opSize <= BufSize /\ InMemory(ReqAddr, ReqSize)) =>
            /\ ~WritesFrame
            /\ \A a \in DOMAIN mem :
                  mem'[a] = IF a >= ReqAddr /\ a < ReqAddr + ReqSize
                              THEN readbuf[5 + (a - ReqAddr)] ELSE mem[a]
            /\ aligned => \A k \in 1 .. ReqSize : mem'[ReqAddr + k - 1] = sent.payload[5 + k]
      /\ (Dispatches /\ opType = KDB_READ_MEM /\ opSize = 5
            /\ ReqSize <= BufSize /\ InMemory(ReqAddr, ReqSize)) =>
            /\ WritesFrame
            /\ tx' = << SYNC1, SYNC2, KDB_READ_MEM_RES, ReqSize >>
                       \o [k \in 1 .. ReqSize |-> mem[ReqAddr + k - 1]]
            /\ mem' = mem
    ]_vars

\* C14's case: READ_MEM has answered with the 27 bytes that a WRITE_MEM
\* frame with a full payload had written.
C14_Witness ==
  /\ scn = "wr"
  /\ tx = << SYNC1, SYNC2, KDB_READ_MEM_RES, BufSize - 5 >> \o WrData(BufSize - 5)
  /\ \A k \in 1 .. (BufSize - 5) : mem[MemBase + 12 + k] = 100 + k
  /\ mem[MemBase + 12] = 13

\* a step that is a call of print or println
Prints == nprint' = nprint + 1

\* C15: loops is false whenever control is outside init and debugger (after
\* construction, after every return of init and of debugger), and a call of
\* capture, print or println leaves loops as it is and reads no inbound byte.
C15_IdleNotRunning ==
  [][ /\ (caller = "none") => ~loops
      /\ (caller' = "none") => ~loops'
      /\ (Captures \/ Prints) => (loops' = loops /\ rx' = rx /\ pc' = "idle")
    ]_vars

\* the response opcode of a read request
ResponseOf(type) ==
  CASE type = KDB_READ_MEM -> KDB_READ_MEM_RES
    [] type = KDB_READ_PIN -> KDB_READ_PIN_RES
    [] type = KDB_READ_CAP -> KDB_READ_CAP_RES
    [] OTHER -> Indet

\* C16: the dispatch of READ_MEM, READ_PIN or READ_CAP writes one frame, with
\* the matching response opcode (READ_PIN's with one payload byte, the pin's
\* level); the dispatch of any other frame writes none; a dispatch reads no
\* inbound byte, and between dispatches readOp and readSize write nothing, so
\* each response is on the line before the next frame is read.
C16_OneResponsePerRequest ==
  [][ /\ (Dispatches /\ ResponseOf(opType) # Indet) =>
            /\ WritesFrame /\ Len(tx') >= 4
            /\ tx'[1] = SYNC1 /\ tx'[2] = SYNC2 /\ tx'[3] = ResponseOf(opType)
            /\ Len(tx') = 4 + tx'[4]
      /\ (Dispatches /\ opType = KDB_READ_PIN /\ readbuf[0] \in DOMAIN pins) =>
            tx' = << SYNC1, SYNC2, KDB_READ_PIN_RES, 1, pins[readbuf[0]] >>
      /\ (Dispatches /\ ResponseOf(opType) = Indet) => ~WritesFrame
      /\ Dispatches => (rx' = rx /\ hostq' = hostq)
      /\ (pc \in {"readOp", "hdr", "payload", "delay"}) => ~WritesFrame
    ]_vars

\* C16's case: WRITE_PIN(13, 1) was dispatched without a response and the
\* READ_PIN(13) after it has been answered with the level 1.
C16_Witness ==
  /\ tx = << SYNC1, SYNC2, KDB_READ_PIN_RES, 1, 1 >>
  /\ pins[13] = 1 /\ sent.op = KDB_READ_PIN /\ pc = "readOp" /\ hostLeft = 0

\* C17: during init the wait that follows an INIT announcement ends within
\* the budget of 200 polls of the serial port: readSize never polls more
\* than that for a byte that does not come.
C17_InitWaitBounded ==
  (caller = "init") => (stall <= InitBudget)

\* C18: the dispatch of a WRITE_CAP frame of N >= 1 payload bytes for a slot
\* registered in the current session changes only the N - 1 bytes at the
\* slot's address, to the payload bytes after the index, and reads no byte
\* past readbuf[31], whatever the slot's size.
C18_WriteCapOnlyFrameData ==
  [][ (Dispatches /\ opType = KDB_WRITE_CAP /\ opSize >= 1 /\ opSize <= BufSize
         /\ ncap <= CapSlots /\ readbuf[0] >= 0 /\ readbuf[0] < capsize) =>
        LET e == caps[readbuf[0]] IN
          /\ \A a \in DOMAIN mem :
                mem'[a] = IF a >= e.ptr /\ a < e.ptr + (opSize - 1)
                            THEN readbuf[1 + (a - e.ptr)] ELSE mem[a]
          /\ "memcpy_load" \notin ub'
    ]_vars

\* C19: once readOp has called doOp, the next 2 + N bytes (opcode, length N,
\* N payload bytes) are read by readSize, one per step and with no look at
\* their values: none of them starts another frame; the header stage ends
\* with its 2nd byte and the payload stage with its N-th; the switch runs
\* after exactly 4 + N bytes of the frame, and readOp resumes its scan with
\* isOp = 0.
C19_LengthDelimited ==
  [][ /\ (pc \in {"hdr", "payload"} /\ ConsumesByte) =>
            /\ ~EntersDoOp /\ isOp' = isOp
            /\ pc' \in {"hdr", "payload", "dispatch"}
            /\ (pc' = pc) => (rsPos' = rsPos + 1)
      /\ (pc = "hdr" /\ pc' # "hdr") =>
            /\ rsPos = 1 /\ rsPos' = 0
            /\ pc' = IF opSize' = 0 THEN "dispatch" ELSE "payload"
      /\ (pc = "payload" /\ pc' # "payload") => (pc' = "dispatch" /\ rsPos = opSize - 1)
      /\ Dispatches => (isOp' = 0 /\ pc' = "readOp")
      /\ (Dispatches /\ aligned) =>
            (opType = sent.op /\ opSize = sent.len /\ nread = 4 + sent.len)
    ]_vars

\* C19's case: a frame whose opcode and length bytes are 0xA0, 0x1E and whose
\* 30 payload bytes are 0xA0, 0x1E pairs has been read to its end as one
\* frame.
C19_Witness ==
  /\ pc = "dispatch" /\ aligned
  /\ sent.op = SYNC1 /\ sent.len = SYNC2 /\ sent.payload[1] = SYNC1 /\ sent.payload[2] = SYNC2
  /\ opType = SYNC1 /\ opSize = SYNC2 /\ nread = 4 + SYNC2
  /\ readbuf[SYNC2 - 2] = SYNC1 /\ readbuf[SYNC2 - 1] = SYNC2

\* C20: in a call of init, once every byte the host has sent is read and
\* readOp is scanning or has returned, each frame sent during the call has
\* been dispatched (a RETURN frame among them has ended the loop).
C20_NoFrameLostInInit ==
  (caller = "init" /\ hostq = << >> /\ rx = << >>
     /\ pc \in {"readOp", "delay", "init_loop"}) =>
    (owed = 0)
=============================================================================
